---------------------------- MODULE Spec2Model ----------------------------
(***************************************************************************)
(* UzoAgro AI spatio-temporal matching engine (src/matching_engine.py).    *)
(*                                                                         *)
(* Number model.  A float is either NaN or a fixed-point integer counting  *)
(* 1/Scale units; coordinates and capacities are whole numbers, distances  *)
(* and scores are fixed-point.  The score 1.0 is Scale, and the composite  *)
(* final_score counts 1/(100*Scale) units (the weights are hundredths).    *)
(* Text model.  A string is a sequence of atoms: a crop word, the          *)
(* separator "|", or a word outside the taxonomy.                          *)
(***************************************************************************)
EXTENDS Integers, Sequences, FiniteSets, TLC

\* ----------------------------------------------------------------- bounds
Scale == 1000
MaxDrivers == 2
MaxTopK == 2
MaxRequests == 1
MaxCoord == 8
MaxDay == 4
MaxStrLen == 3

\* ------------------------------------------------------- value encodings
\* a null number / NaT after to_numpy(dtype=float) or float(nan)
NaN == -1000000
\* Python None: what Series.get(key) returns for a missing key
None == -2000000
\* a non-numeric text value in a numeric field
BadStr == -3000000
\* a null (missing) allowed_crops cell, for which pd.isna is true
NA == <<"<NA>">>
\* a text key the row lacks
NoText == <<"<None>">>

IsNum(x) == x \notin {NaN, None, BadStr}

\* float(x) of Python: None raises TypeError, text raises ValueError
FloatErr(x) == IF x = None THEN "TypeError" ELSE IF x = BadStr THEN "ValueError" ELSE "none"

Abs(x) == IF x < 0 THEN -x ELSE x

RECURSIVE SqrtBetween(_, _, _)
SqrtBetween(n, lo, hi) ==
    IF lo >= hi THEN lo
    ELSE LET mid == (lo + hi + 1) \div 2
         IN  IF mid * mid <= n THEN SqrtBetween(n, mid, hi)
                               ELSE SqrtBetween(n, lo, mid - 1)

\* floor(Scale * sqrt(n)) for every squared distance n on the coordinate grid
SqrtTable ==
    <<>> \o [i \in 1..(2 * MaxCoord * MaxCoord + 1) |->
                SqrtBetween((i - 1) * Scale * Scale, 0, 2 * MaxCoord * Scale)]

\* np.sqrt of a whole number n, as a fixed-point value
FSqrt(n) == IF n = NaN THEN NaN ELSE SqrtTable[n + 1]

FSub(a, b) == IF a = NaN \/ b = NaN THEN NaN ELSE a - b
FAdd(a, b) == IF a = NaN \/ b = NaN THEN NaN ELSE a + b
FMul(a, b) == IF a = NaN \/ b = NaN THEN NaN ELSE a * b

\* ------------------------------------------------ cargo matrix (l. 21-32)
Grains == {"Rice", "Maize", "Beans", "Millet", "Sorghum"}
Tubers == {"Yam", "Cassava", "Potatoes"}
Perishables == {"Tomatoes", "Onions", "Peppers"}

CROP_CATEGORIES == <<[name |-> "Grains", crops |-> Grains],
                     [name |-> "Tubers", crops |-> Tubers],
                     [name |-> "Perishables", crops |-> Perishables]>>

\* a crop text is in a list of crop words iff it is exactly that one word
InCrops(crop, crops) == Len(crop) = 1 /\ crop[1] \in crops

RECURSIVE CategoryFrom(_, _)
CategoryFrom(crop, i) ==
    IF i > Len(CROP_CATEGORIES) THEN "Unknown"
    ELSE IF InCrops(crop, CROP_CATEGORIES[i].crops) THEN CROP_CATEGORIES[i].name
    ELSE CategoryFrom(crop, i + 1)

get_category(crop) == CategoryFrom(crop, 1)

\* str.split("|"): the pieces between separators, empty pieces included
RECURSIVE SplitFrom(_, _, _)
SplitFrom(s, i, piece) ==
    IF i > Len(s) THEN <<piece>>
    ELSE IF s[i] = "|" THEN <<piece>> \o SplitFrom(s, i + 1, <<>>)
    ELSE SplitFrom(s, i + 1, Append(piece, s[i]))

Split(s) == SplitFrom(s, 1, <<>>)

SeqRange(s) == {s[i] : i \in 1..Len(s)}

\* the sequence f, held as an explicit tuple (an array computed once)
Arr(f) == <<>> \o f

\* ------------------------------------- core mathematical ops (l. 48-64)
compute_distance(lat1, lon1, lat2, lon2) ==
    LET dlat == FSub(lat1, lat2)
        dlon == FSub(lon1, lon2)
    IN  FSqrt(FAdd(FMul(dlat, dlat), FMul(dlon, dlon)))

\* the cross-track deviation dividing by |AB| whatever its value
compute_cross_track_deviation_noFallback(A_lat, A_lon, B_lat, B_lon, P_lat, P_lon) ==
    LET AB_lat == FSub(B_lat, A_lat)
        AB_lon == FSub(B_lon, A_lon)
        AP_lat == FSub(P_lat, A_lat)
        AP_lon == FSub(P_lon, A_lon)
        norm_AB == FSqrt(FAdd(FMul(AB_lat, AB_lat), FMul(AB_lon, AB_lon)))
        cross == FSub(FMul(AB_lon, AP_lat), FMul(AB_lat, AP_lon))
        cross_prod == IF cross = NaN THEN NaN ELSE Abs(cross)
    IN  IF cross_prod = NaN \/ norm_AB = NaN \/ norm_AB = 0 THEN NaN
        ELSE (cross_prod * Scale * Scale) \div norm_AB

compute_cross_track_deviation(A_lat, A_lon, B_lat, B_lon, P_lat, P_lon) ==
    LET AB_lat == FSub(B_lat, A_lat)
        AB_lon == FSub(B_lon, A_lon)
        AP_lat == FSub(P_lat, A_lat)
        AP_lon == FSub(P_lon, A_lon)
        norm_AB == FSqrt(FAdd(FMul(AB_lat, AB_lat), FMul(AB_lon, AB_lon)))
        cross == FSub(FMul(AB_lon, AP_lat), FMul(AB_lat, AP_lon))
        cross_prod == IF cross = NaN THEN NaN ELSE Abs(cross)
        \* np.divide under errstate: x/0 gives inf or NaN, replaced below
        deviation == IF cross_prod = NaN \/ norm_AB = NaN \/ norm_AB = 0 THEN NaN
                     ELSE (cross_prod * Scale * Scale) \div norm_AB
    IN  IF norm_AB = 0 THEN compute_distance(A_lat, A_lon, P_lat, P_lon)
        ELSE deviation

\* l. 154-156: total_dev, the pickup deviation plus the dropoff deviation
TotalDeviation(A_lat, A_lon, B_lat, B_lon, p_lat, p_lon, d_lat, d_lon) ==
    FAdd(compute_cross_track_deviation(A_lat, A_lon, B_lat, B_lon, p_lat, p_lon),
         compute_cross_track_deviation(A_lat, A_lon, B_lat, B_lon, d_lat, d_lon))

\* ------------------------------------------ feature engineering (l. 67-123)
Score10 == Scale
Score08 == (8 * Scale) \div 10
Score04 == (4 * Scale) \div 10
Score00 == 0

\* mutant of TemporalStep: the day difference keeps its sign
TemporalStep_signed(driver_date, request_date) ==
    LET days_diff == IF driver_date = NaN THEN NaN ELSE driver_date - request_date
    IN  IF days_diff = 0 THEN Score10
        ELSE IF days_diff = 1 THEN Score08
        ELSE IF days_diff = 2 THEN Score04
        ELSE Score00

\* one element of the np.select of l. 73-75; a NaT date gives days_diff NaN
TemporalStep(driver_date, request_date) ==
    LET days_diff == IF driver_date = NaN THEN NaN ELSE Abs(driver_date - request_date)
    IN  IF days_diff = 0 THEN Score10
        ELSE IF days_diff = 1 THEN Score08
        ELSE IF days_diff = 2 THEN Score04
        ELSE Score00

extract_temporal_score(driver_dates, request_date) ==
    IF request_date \in {NaN, None}
    THEN Arr([i \in 1..Len(driver_dates) |-> Score10])
    ELSE Arr([i \in 1..Len(driver_dates) |-> TemporalStep(driver_dates[i], request_date)])

safe_pivots == <<{"Grains", "Tubers"}>>

\* mutant of AffinityOf: the category test comes before the exact test
AffinityOf_categoryFirst(allowed_str, request_crop) ==
    LET req_cat == get_category(request_crop)
        driver_crops == Split(allowed_str)
        driver_categories == {get_category(c) : c \in SeqRange(driver_crops)}
    IN  IF allowed_str = NA THEN Score00
        ELSE IF req_cat \in driver_categories THEN Score08
        ELSE IF request_crop \in SeqRange(driver_crops) THEN Score10
        ELSE IF \E p \in 1..Len(safe_pivots) :
                    /\ req_cat \in safe_pivots[p]
                    /\ \E dc \in driver_categories : dc \in safe_pivots[p]
             THEN Score04
        ELSE Score00

\* one iteration of the loop of l. 88-121
AffinityOf(allowed_str, request_crop) ==
    LET req_cat == get_category(request_crop)
        driver_crops == Split(allowed_str)
        driver_categories == {get_category(c) : c \in SeqRange(driver_crops)}
    IN  IF allowed_str = NA THEN Score00
        ELSE IF request_crop \in SeqRange(driver_crops) THEN Score10
        ELSE IF req_cat \in driver_categories THEN Score08
        ELSE IF \E p \in 1..Len(safe_pivots) :
                    /\ req_cat \in safe_pivots[p]
                    /\ \E dc \in driver_categories : dc \in safe_pivots[p]
             THEN Score04
        ELSE Score00

extract_affinity_score(driver_crops_series, request_crop) ==
    Arr([i \in 1..Len(driver_crops_series) |->
            AffinityOf(driver_crops_series[i], request_crop)])


\* ------------------------------------------------- tables and rows
OptionalColumns == {"home_base_lat", "home_base_lon", "available_capacity",
                    "available_date", "allowed_crops"}

\* the value a cell of an absent column holds in the model (never read)
Blank(col) == IF col = "allowed_crops" THEN NA ELSE NaN

Column(df, name) == Arr([i \in 1..Len(df) |-> df[i][name]])

\* Series.get(key, default) on a request row: None marks a missing key
RowGet(row, key, default) == IF row[key] = None THEN default ELSE row[key]

\* the same for a text field: NoText marks a missing key
RowGetText(row, key, default) == IF row[key] = NoText THEN default ELSE row[key]

SeqMin(arr) == LET vals == SeqRange(arr) IN CHOOSE m \in vals : \A x \in vals : m <= x
SeqMax(arr) == LET vals == SeqRange(arr) IN CHOOSE m \in vals : \A x \in vals : m >= x

\* 1e-12 in fixed-point units
Eps == 0

\* mutant of inv_normalize: the minimum is not subtracted from the value
inv_normalize_unshifted(arr) ==
    LET hasNaN == NaN \in SeqRange(arr)
        minv == IF hasNaN THEN NaN ELSE SeqMin(arr)
        maxv == IF hasNaN THEN NaN ELSE SeqMax(arr)
    IN  IF hasNaN THEN Arr([i \in 1..Len(arr) |-> NaN])
        ELSE IF maxv - minv <= Eps THEN Arr([i \in 1..Len(arr) |-> Scale])
        ELSE Arr([i \in 1..Len(arr) |-> Scale - ((arr[i] * Scale) \div (maxv - minv))])

\* the normalizer answering 0 for a distribution without spread
inv_normalize_zeros(arr) ==
    LET hasNaN == NaN \in SeqRange(arr)
        minv == IF hasNaN THEN NaN ELSE SeqMin(arr)
        maxv == IF hasNaN THEN NaN ELSE SeqMax(arr)
    IN  IF hasNaN THEN Arr([i \in 1..Len(arr) |-> NaN])
        ELSE IF maxv - minv <= Eps THEN Arr([i \in 1..Len(arr) |-> 0])
        ELSE Arr([i \in 1..Len(arr) |->
                    Scale - (((arr[i] - minv) * Scale) \div (maxv - minv))])

\* the normalizer dividing by the largest value instead of the range
inv_normalize_byMax(arr) ==
    LET hasNaN == NaN \in SeqRange(arr)
        minv == IF hasNaN THEN NaN ELSE SeqMin(arr)
        maxv == IF hasNaN THEN NaN ELSE SeqMax(arr)
    IN  IF hasNaN THEN Arr([i \in 1..Len(arr) |-> NaN])
        ELSE IF maxv - minv <= Eps THEN Arr([i \in 1..Len(arr) |-> Scale])
        ELSE Arr([i \in 1..Len(arr) |->
                    Scale - (((arr[i] - minv) * Scale) \div maxv)])

\* l. 158-162; ndarray.min/max of an array holding a NaN is NaN
inv_normalize(arr) ==
    LET hasNaN == NaN \in SeqRange(arr)
        minv == IF hasNaN THEN NaN ELSE SeqMin(arr)
        maxv == IF hasNaN THEN NaN ELSE SeqMax(arr)
    IN  IF hasNaN THEN Arr([i \in 1..Len(arr) |-> NaN])
        ELSE IF maxv - minv <= Eps THEN Arr([i \in 1..Len(arr) |-> Scale])
        ELSE Arr([i \in 1..Len(arr) |->
                     Scale - (((arr[i] - minv) * Scale) \div (maxv - minv))])

\* mutant of CapacityMask: a strict comparison
CapacityMask_strict(avail_cap, req_cap) ==
    IF avail_cap = NaN \/ req_cap = NaN THEN 0
    ELSE IF avail_cap > req_cap THEN Scale ELSE 0

\* l. 142: (avail_caps >= req_cap).astype(float); a comparison with NaN is False
CapacityMask(avail_cap, req_cap) ==
    IF avail_cap = NaN \/ req_cap = NaN THEN 0
    ELSE IF avail_cap >= req_cap THEN Scale ELSE 0

\* the first exception compute_scores raises, or "none" (l. 126-162)
compute_scores_raises(drivers_df, absent_cols, request_row) ==
    LET reqNums == <<request_row.pickup_lat, request_row.pickup_lon,
                     request_row.dropoff_lat, request_row.dropoff_lon,
                     RowGet(request_row, "required_capacity", 0)>>
        badReq == {i \in 1..Len(reqNums) : FloatErr(reqNums[i]) # "none"}
        numCols == ({"current_lat", "current_lon"} \cup
                    {"home_base_lat", "home_base_lon", "available_capacity"}) \ absent_cols
    IN  IF badReq # {} THEN FloatErr(reqNums[CHOOSE i \in badReq : \A j \in badReq : i <= j])
        ELSE IF {"current_lat", "current_lon"} \cap absent_cols # {} THEN "KeyError"
        ELSE IF \E c \in numCols : BadStr \in SeqRange(Column(drivers_df, c)) THEN "ValueError"
        ELSE IF "available_date" \in absent_cols THEN "TypeError"
        ELSE IF "allowed_crops" \in absent_cols THEN "TypeError"
        ELSE IF Len(drivers_df) = 0 THEN "ValueError"
        ELSE "none"

\* l. 125-173, when nothing is raised: the features table, one row per driver
compute_scores(drivers_df, absent_cols, request_row) ==
    LET p_lat == request_row.pickup_lat
        p_lon == request_row.pickup_lon
        d_lat == request_row.dropoff_lat
        d_lon == request_row.dropoff_lon
        req_cap == RowGet(request_row, "required_capacity", 0)
        req_date == request_row.requested_date
        req_crop == RowGetText(request_row, "crop_type", <<>>)
        n == Len(drivers_df)
        curr_lats == Column(drivers_df, "current_lat")
        curr_lons == Column(drivers_df, "current_lon")
        home_lats == IF "home_base_lat" \in absent_cols THEN curr_lats
                     ELSE Column(drivers_df, "home_base_lat")
        home_lons == IF "home_base_lon" \in absent_cols THEN curr_lons
                     ELSE Column(drivers_df, "home_base_lon")
        avail_caps == IF "available_capacity" \in absent_cols THEN [i \in 1..n |-> 0]
                      ELSE Column(drivers_df, "available_capacity")
        capacity_score == Arr([i \in 1..n |-> CapacityMask(avail_caps[i], req_cap)])
        time_score == extract_temporal_score(Column(drivers_df, "available_date"), req_date)
        affinity_score == extract_affinity_score(Column(drivers_df, "allowed_crops"), req_crop)
        deadhead_dists == Arr([i \in 1..n |->
                              compute_distance(curr_lats[i], curr_lons[i], p_lat, p_lon)])
        total_dev == Arr([i \in 1..n |-> TotalDeviation(
                          curr_lats[i], curr_lons[i], home_lats[i], home_lons[i],
                          p_lat, p_lon, d_lat, d_lon)])
        deadhead_score == inv_normalize(deadhead_dists)
        corridor_score == inv_normalize(total_dev)
    IN  Arr([i \in 1..n |-> [driver_id |-> drivers_df[i].driver_id,
                             capacity_score |-> capacity_score[i],
                             time_score |-> time_score[i],
                             affinity_score |-> affinity_score[i],
                             deadhead_score |-> deadhead_score[i],
                             corridor_score |-> corridor_score[i]]])

\* ------------------------------------------ execution & ranking (l. 176-212)
\* the weights, in hundredths
W_DEADHEAD == 25
W_CORRIDOR == 35
W_AFFINITY == 20
W_TIME == 20

\* l. 189-194: the weighted sum times the capacity mask; NaN * 0.0 is NaN
FinalScore(f) ==
    LET weighted == FAdd(FAdd(FAdd(FMul(W_DEADHEAD, f.deadhead_score),
                                   FMul(W_CORRIDOR, f.corridor_score)),
                              FMul(W_AFFINITY, f.affinity_score)),
                         FMul(W_TIME, f.time_score))
    IN  IF weighted = NaN THEN NaN ELSE (weighted * f.capacity_score) \div Scale

WithFinalScore(feats) ==
    Arr([i \in 1..Len(feats) |->
        [driver_id |-> feats[i].driver_id,
         capacity_score |-> feats[i].capacity_score,
         time_score |-> feats[i].time_score,
         affinity_score |-> feats[i].affinity_score,
         deadhead_score |-> feats[i].deadhead_score,
         corridor_score |-> feats[i].corridor_score,
         final_score |-> FinalScore(feats[i])]])

Perms(n) == {p \in [1..n -> 1..n] : \A a, b \in 1..n : a # b => p[a] # p[b]}

\* the arrangements of a table of n rows, n = 0..MaxDrivers
PermTable == <<>> \o [i \in 1..(MaxDrivers + 1) |-> Perms(i - 1)]

\* mutant of SortedOrders: an ascending sort
SortedOrders_ascending(feats) ==
    {p \in PermTable[Len(feats) + 1] :
        \A a, b \in 1..Len(feats) : a < b =>
            LET x == feats[p[a]].final_score
                y == feats[p[b]].final_score
            IN  IF x = NaN THEN y = NaN /\ p[a] < p[b]
                ELSE y = NaN \/ x <= y}

\* the ranking whose sorted frame is discarded: the rows stay in table order
SortedOrders_unsorted(feats) ==
    {p \in PermTable[Len(feats) + 1] : \A a \in 1..Len(feats) : p[a] = a}

\* l. 196: sort_values(by="final_score", ascending=False).  The default sort
\* kind is quicksort, which fixes no order among equal scores: every
\* descending arrangement is a possible outcome.  NaN scores go last
\* (na_position="last"), in table order.
SortedOrders(feats) ==
    {p \in PermTable[Len(feats) + 1] :
        \A a, b \in 1..Len(feats) : a < b =>
            LET x == feats[p[a]].final_score
                y == feats[p[b]].final_score
            IN  IF x = NaN THEN y = NaN /\ p[a] < p[b]
                ELSE y = NaN \/ x >= y}

\* .head(top_k)
HeadK(order, k) == SubSeq(order, 1, IF k < Len(order) THEN k ELSE Len(order))

Viable(feats, i) == feats[i].final_score # NaN /\ feats[i].final_score > 0

\* l. 198-210: the matches one request adds, given the sorted order
MatchesOf(feats, order, k, request_id) ==
    LET top == HeadK(order, k)
        kept == SelectSeq(top, LAMBDA i : Viable(feats, i))
    IN  Arr([j \in 1..Len(kept) |->
            [request_id |-> request_id,
             driver_id |-> feats[kept[j]].driver_id,
             final_score |-> feats[kept[j]].final_score,
             capacity_score |-> feats[kept[j]].capacity_score,
             time_score |-> feats[kept[j]].time_score,
             affinity_score |-> feats[kept[j]].affinity_score,
             deadhead_score |-> feats[kept[j]].deadhead_score,
             corridor_score |-> feats[kept[j]].corridor_score]])

\* ------------------------------------------------------- sample inputs
Maize == <<"Maize">>
Tomatoes == <<"Tomatoes">>
Yam == <<"Yam">>
\* a label outside the taxonomy
Quinoa == <<"Quinoa">>

Driver(clat, clon, hlat, hlon, cap, date, crops) ==
    [current_lat |-> clat, current_lon |-> clon,
     home_base_lat |-> hlat, home_base_lon |-> hlon,
     available_capacity |-> cap, available_date |-> date, allowed_crops |-> crops]

\* rows a drivers table may hold (data/drivers.csv after load_data)
DriverPool ==
    { Driver(0, 0, 6, 8, 30, 1, <<"Rice", "|", "Maize">>),
      Driver(3, 4, 3, 4, 10, 1, Maize),
      Driver(6, 0, 0, 0, 20, 2, <<"Yam", "|", "Cassava">>),
      Driver(0, 8, 6, 8, 30, 4, <<"All">>),
      Driver(3, 4, 0, 0, NaN, NaN, Tomatoes),
      Driver(0, 0, NaN, NaN, 30, 1, NA) }

Request(plat, plon, dlat, dlon, cap, date, crop) ==
    [pickup_lat |-> plat, pickup_lon |-> plon,
     dropoff_lat |-> dlat, dropoff_lon |-> dlon,
     required_capacity |-> cap, requested_date |-> date, crop_type |-> crop]

\* rows a requests table may hold (data/requests.csv after load_data, or the
\* one-row table of app.py l. 314-323); a NaN is a null cell
RequestPool ==
    { Request(3, 4, 6, 8, 20, 1, Maize),
      Request(0, 0, 6, 0, 20, NaN, Tomatoes),
      Request(6, 8, 0, 0, 5, 3, Yam),
      Request(0, 8, 3, 4, 20, 2, Quinoa),
      Request(3, 4, 0, 0, NaN, 1, Maize) }

\* rows with a missing key (None, NoText), a null or a non-numeric coordinate
MalformedRequests ==
    { Request(0, 8, 3, 4, None, 2, Maize),
      Request(3, 4, 6, 8, 20, None, NoText),
      Request(NaN, 0, 6, 8, 20, 1, Maize),
      Request(None, 0, 6, 8, 20, 1, Maize),
      Request(0, 0, 6, BadStr, 20, 1, Maize) }

\* driver rows with a null or a non-numeric required coordinate
MalformedDrivers ==
    { Driver(NaN, 0, 6, 8, 30, 1, Maize),
      Driver(0, BadStr, 6, 8, 30, 1, Maize) }

\* rows that leave the optional home base empty
SparseDrivers ==
    { Driver(0, 0, NaN, NaN, 30, 1, Maize) }

\* the column sets a drivers table may lack
AbsentChoices ==
    { {}, {"home_base_lat", "home_base_lon"}, {"available_capacity"},
      {"available_date"}, {"allowed_crops"}, {"current_lat"} }

\* ------------------------------------------------------------ the state
VARIABLES
    drivers,    \* drivers_df: the rows of the transporter table
    absent,     \* the columns drivers_df lacks
    top_k,      \* the top_k argument of the running call
    requests,   \* the rows of requests_df iterated so far
    features,   \* the features table of the last iteration
    matches,    \* the matches list of the running call
    err,        \* the exception the call raised, or "none"
    pc,         \* "load" | "run" | "raised"
    probe       \* input and output of the last scorer applied on its own

vars == <<drivers, absent, top_k, requests, features, matches, err, pc, probe>>

engineVars == <<drivers, absent, top_k, requests, features, matches, err, pc>>

NoProbe == [fn |-> "none"]

Init ==
    /\ drivers = <<>>
    /\ absent = {}
    /\ top_k = 0
    /\ requests = <<>>
    /\ features = <<>>
    /\ matches = <<>>
    /\ err = "none"
    /\ pc = "load"
    /\ probe = NoProbe

\* a row of the table as stored: the absent columns hold no value
StoredRow(d, id) ==
    [c \in DOMAIN d \cup {"driver_id"} |->
        IF c = "driver_id" THEN id
        ELSE IF c \in absent THEN Blank(c) ELSE d[c]]

\* load_data / the caller materializes one more row of drivers_df
LoadDriver(d) ==
    /\ pc = "load"
    /\ Len(drivers) < MaxDrivers
    /\ drivers' = Append(drivers, StoredRow(d, Len(drivers) + 1))
    /\ UNCHANGED <<absent, top_k, requests, features, matches, err, pc, probe>>

\* run_matching_engine(drivers_df, requests_df, top_k=k) is entered: l. 176-177
Call(k) ==
    /\ pc = "load"
    /\ top_k' = k
    /\ matches' = <<>>
    /\ pc' = "run"
    /\ UNCHANGED <<drivers, absent, requests, features, err, probe>>

\* the row of requests_df at position id
RequestRow(r, id) ==
    [c \in DOMAIN r \cup {"request_id"} |-> IF c = "request_id" THEN id ELSE r[c]]

\* the iteration keeping the features table of the iteration before it
MatchRequestIn_cached(r, limit) ==
    /\ pc = "run"
    /\ Len(requests) < limit
    /\ LET req == RequestRow(r, Len(requests) + 1)
           raised == compute_scores_raises(drivers, absent, req)
       IN  /\ requests' = Append(requests, req)
           /\ IF raised # "none"
              THEN /\ err' = raised
                   /\ pc' = "raised"
                   /\ matches' = <<>>
                   /\ features' = <<>>
              ELSE LET feats == IF features # <<>> THEN features
                                ELSE WithFinalScore(compute_scores(drivers, absent, req))
                   IN  \E order \in SortedOrders(feats) :
                          /\ features' = feats
                          /\ matches' = matches \o MatchesOf(feats, order, top_k, req.request_id)
                          /\ UNCHANGED <<err, pc>>
    /\ UNCHANGED <<drivers, absent, top_k, probe>>

\* the iteration sorting the transporter table itself by final_score
MatchRequestIn_sortsTable(r, limit) ==
    /\ pc = "run"
    /\ Len(requests) < limit
    /\ LET req == RequestRow(r, Len(requests) + 1)
           raised == compute_scores_raises(drivers, absent, req)
       IN  /\ requests' = Append(requests, req)
           /\ IF raised # "none"
              THEN /\ err' = raised
                   /\ pc' = "raised"
                   /\ matches' = <<>>
                   /\ features' = <<>>
                   /\ UNCHANGED drivers
              ELSE LET feats == WithFinalScore(compute_scores(drivers, absent, req))
                   IN  \E order \in SortedOrders(feats) :
                          /\ features' = feats
                          /\ matches' = matches \o MatchesOf(feats, order, top_k, req.request_id)
                          /\ drivers' = Arr([j \in 1..Len(drivers) |-> drivers[order[j]]])
                          /\ UNCHANGED <<err, pc>>
    /\ UNCHANGED <<absent, top_k, probe>>

\* one iteration of the loop of l. 185-210 over the next row of a requests_df
\* of at most limit rows
MatchRequestIn(r, limit) ==
    /\ pc = "run"
    /\ Len(requests) < limit
    /\ LET req == RequestRow(r, Len(requests) + 1)
           raised == compute_scores_raises(drivers, absent, req)
       IN  /\ requests' = Append(requests, req)
           /\ IF raised # "none"
              THEN /\ err' = raised
                   /\ pc' = "raised"
                   /\ matches' = <<>>
                   /\ features' = <<>>
              ELSE LET feats == WithFinalScore(compute_scores(drivers, absent, req))
                   IN  \E order \in SortedOrders(feats) :
                          /\ features' = feats
                          /\ matches' = matches \o MatchesOf(feats, order, top_k, req.request_id)
                          /\ UNCHANGED <<err, pc>>
    /\ UNCHANGED <<drivers, absent, top_k, probe>>

MatchRequest(r) == MatchRequestIn(r, MaxRequests)

Next ==
    \/ \E d \in DriverPool : LoadDriver(d)
    \/ \E k \in 1..MaxTopK : Call(k)
    \/ \E r \in RequestPool : MatchRequest(r)

Spec == Init /\ [][Next]_vars

\* ---------------------------------------------- tables with missing parts
InitDegraded ==
    /\ drivers = <<>>
    /\ absent \in AbsentChoices
    /\ top_k = 0
    /\ requests = <<>>
    /\ features = <<>>
    /\ matches = <<>>
    /\ err = "none"
    /\ pc = "load"
    /\ probe = NoProbe

NextDegraded ==
    \/ \E d \in DriverPool \cup MalformedDrivers \cup SparseDrivers : LoadDriver(d)
    \/ \E k \in 1..MaxTopK : Call(k)
    \/ \E r \in RequestPool \cup MalformedRequests : MatchRequest(r)

SpecDegraded == InitDegraded /\ [][NextDegraded]_vars

\* ------------------------------------------- batches of several requests
\* the rows of a batch's requests_df, and the tables it runs against
MaxBatch == 2

BatchDrivers ==
    { Driver(0, 0, 6, 8, 30, 1, <<"Rice", "|", "Maize">>),
      Driver(3, 4, 3, 4, 10, 1, Maize),
      Driver(6, 0, 0, 0, 20, 2, <<"Yam", "|", "Cassava">>) }

BatchRequests ==
    { Request(3, 4, 6, 8, 20, 1, Maize),
      Request(0, 0, 6, 0, 20, NaN, Tomatoes) }

NextBatch ==
    \/ \E d \in BatchDrivers : LoadDriver(d)
    \/ \E k \in 1..MaxTopK : Call(k)
    \/ \E r \in BatchRequests : MatchRequestIn(r, MaxBatch)

SpecBatch == Init /\ [][NextBatch]_vars


\* ------------------------------------------------ the scorers on their own
Dates == 0..MaxDay \cup {NaN}
DateSeries == UNION {[1..n -> Dates] : n \in 1..2}
RequestDates == 0..MaxDay \cup {NaN, None}

Atoms == {"Maize", "Rice", "Yam", "Tomatoes", "Quinoa", "All", "|"}
Texts == UNION {[1..n -> Atoms] : n \in 0..MaxStrLen}
AllowedCells == Texts \cup {NA}
RequestCrops == {Maize, Yam, Tomatoes, Quinoa, <<"All">>}

\* extract_temporal_score applied to a dates column and a request date
ProbeTemporal(dates, request_date) ==
    /\ probe = NoProbe
    /\ probe' = [fn |-> "temporal", dates |-> dates, request_date |-> request_date,
                 out |-> extract_temporal_score(dates, request_date)]
    /\ UNCHANGED engineVars

\* extract_affinity_score applied to a one-row allowed_crops column
ProbeAffinity(allowed_str, request_crop) ==
    /\ probe = NoProbe
    /\ probe' = [fn |-> "affinity", allowed |-> allowed_str, request_crop |-> request_crop,
                 out |-> extract_affinity_score(<<allowed_str>>, request_crop)]
    /\ UNCHANGED engineVars

\* raw distance vectors, and the constants they are translated by
MaxArr == 3
RawValues == {0, 1, Scale \div 2, Scale, 3 * Scale, NaN}
RawVectors == UNION {[1..n -> RawValues] : n \in 1..MaxArr}
Shifts == {0, 1, Scale, 7 * Scale}

\* inv_normalize applied to a raw vector and to the same vector translated
ProbeNormalize(arr, shift) ==
    /\ probe = NoProbe
    /\ probe' = [fn |-> "normalize", arr |-> arr, shift |-> shift,
                 out |-> inv_normalize(arr),
                 shifted_out |-> inv_normalize(Arr([i \in 1..Len(arr) |->
                                                      FAdd(arr[i], shift)]))]
    /\ UNCHANGED engineVars

\* positions on the coordinate grid
CoordValues == {0, 3, 4, MaxCoord}
Points == CoordValues \X CoordValues
DropPoints == {<<0, 0>>, <<3, 4>>, <<MaxCoord, 4>>}

\* compute_cross_track_deviation applied to a route A -> B with a pickup P and
\* a dropoff D, and the total_dev of the same route
ProbeCorridor(A, B, P, D) ==
    /\ probe = NoProbe
    /\ probe' = [fn |-> "corridor", A |-> A, B |-> B, P |-> P, D |-> D,
                 pickup_dev |-> compute_cross_track_deviation(
                                    A[1], A[2], B[1], B[2], P[1], P[2]),
                 dropoff_dev |-> compute_cross_track_deviation(
                                    A[1], A[2], B[1], B[2], D[1], D[2]),
                 total_dev |-> TotalDeviation(A[1], A[2], B[1], B[2],
                                              P[1], P[2], D[1], D[2])]
    /\ UNCHANGED engineVars

\* each scorer is applied, once, to one of its inputs
TemporalScorer ==
    /\ probe = NoProbe
    /\ \E dates \in DateSeries, rd \in RequestDates : ProbeTemporal(dates, rd)

AffinityScorer ==
    /\ probe = NoProbe
    /\ \E a \in AllowedCells, c \in RequestCrops : ProbeAffinity(a, c)

Normalizer ==
    /\ probe = NoProbe
    /\ \E arr \in RawVectors, shift \in Shifts : ProbeNormalize(arr, shift)

CorridorScorer ==
    /\ probe = NoProbe
    /\ \E A \in Points, B \in Points, P \in Points, D \in DropPoints :
          ProbeCorridor(A, B, P, D)

NextScorers ==
    \/ TemporalScorer
    \/ AffinityScorer
    \/ Normalizer
    \/ CorridorScorer

SpecScorers == Init /\ [][NextScorers]_vars

\* =================================================================== claims
\* the request of the last iteration, and whether it produced a features table
LastRequest == requests[Len(requests)]
Scored == pc = "run" /\ requests # <<>>

\* the matches emitted for request rid, in emission order
MatchesFor(rid) == SelectSeq(matches, LAMBDA m : m.request_id = rid)

\* C1: for every transporter and request, capacity_score is exactly 0 or 1, and
\* it is 1 iff the transporter's available_capacity >= the required_capacity.
C1_CapacityIsMask ==
    Scored =>
        \A i \in 1..Len(features) :
            /\ features[i].capacity_score \in {0, Scale}
            /\ features[i].capacity_score = Scale <=>
                  /\ IsNum(drivers[i].available_capacity)
                  /\ IsNum(LastRequest.required_capacity)
                  /\ drivers[i].available_capacity >= LastRequest.required_capacity

C1_Witness ==
    /\ Scored
    /\ \E i, j \in 1..Len(features) :
          /\ features[i].capacity_score = Scale
          /\ drivers[i].available_capacity = LastRequest.required_capacity
          /\ features[j].capacity_score = 0
          /\ IsNum(drivers[j].available_capacity)

\* C2 (as claimed): a transporter whose available capacity is below the
\* required capacity gets composite score 0 whatever its other scores are, and
\* never appears among the matches returned for that request.
C2_GatedToZero ==
    Scored =>
        \A i \in 1..Len(features) :
            ( /\ IsNum(drivers[i].available_capacity)
              /\ IsNum(LastRequest.required_capacity)
              /\ drivers[i].available_capacity < LastRequest.required_capacity )
            => /\ features[i].final_score = 0
               /\ \A j \in 1..Len(matches) :
                     matches[j].request_id = LastRequest.request_id
                        => matches[j].driver_id # features[i].driver_id

\* C3: for every request the emitted matches number at most top_k, each has a
\* composite score > 0, and they appear in non-increasing order of score.
C3_TopKSortedPositive ==
    \A rid \in 1..Len(requests) :
        LET ms == MatchesFor(rid)
        IN  /\ Len(ms) <= top_k
            /\ \A j \in 1..Len(ms) : ms[j].final_score # NaN /\ ms[j].final_score > 0
            /\ \A j \in 1..(Len(ms) - 1) : ms[j].final_score >= ms[j + 1].final_score

C3_Witness ==
    /\ Scored
    /\ Len(features) > top_k
    /\ \A i \in 1..Len(features) : Viable(features, i)
    /\ Len(MatchesFor(LastRequest.request_id)) = top_k
    /\ MatchesFor(LastRequest.request_id)[1].driver_id # 1
    /\ \E i \in 1..Len(features) : features[i].final_score > features[1].final_score

\* C4: for valid inputs (non-empty table, numeric coordinates and capacities)
\* each of the five scores of every transporter lies in [0,1], and so does
\* the composite final_score.
ValidInputs ==
    /\ drivers # <<>>
    /\ \A i \in 1..Len(drivers) :
          \A c \in {"current_lat", "current_lon", "home_base_lat", "home_base_lon",
                    "available_capacity"} : IsNum(drivers[i][c])
    /\ \A c \in {"pickup_lat", "pickup_lon", "dropoff_lat", "dropoff_lon",
                 "required_capacity"} : IsNum(LastRequest[c])

InUnit(x) == x # NaN /\ 0 <= x /\ x <= Scale

C4_ScoresInUnitInterval ==
    (Scored /\ ValidInputs) =>
        \A i \in 1..Len(features) :
            /\ InUnit(features[i].capacity_score)
            /\ InUnit(features[i].time_score)
            /\ InUnit(features[i].affinity_score)
            /\ InUnit(features[i].deadhead_score)
            /\ InUnit(features[i].corridor_score)
            /\ features[i].final_score # NaN
            /\ 0 <= features[i].final_score
            /\ features[i].final_score <= 100 * Scale

C4_Witness ==
    /\ Scored
    /\ ValidInputs
    /\ \E i, j \in 1..Len(features) :
          /\ features[i].deadhead_score = 0
          /\ features[j].deadhead_score = Scale
          /\ features[i].corridor_score = Scale
          /\ features[j].corridor_score = 0
          /\ 0 < features[i].final_score
          /\ features[i].final_score < 100 * Scale

\* C8 (as claimed): a call with an empty transporter table returns an empty
\* match list for any request and raises no error.
C8_EmptyTableNoError ==
    (drivers = <<>> /\ requests # <<>>) => (err = "none" /\ pc = "run" /\ matches = <<>>)

\* C5: extract_temporal_score maps the absolute whole-day difference to 1.0
\* for 0 days, 0.8 for 1, 0.4 for 2 and 0.0 for 3 or more; when the request
\* date is missing every transporter gets 1.0 whatever its own date is.
DayDiff(a, b) == IF a >= b THEN a - b ELSE b - a

C5_TemporalSteps ==
    probe.fn = "temporal" =>
        \A i \in 1..Len(probe.dates) :
            /\ Len(probe.out) = Len(probe.dates)
            /\ probe.request_date \in {NaN, None} => probe.out[i] = Scale
            /\ (probe.request_date \notin {NaN, None} /\ probe.dates[i] # NaN) =>
                  LET d == DayDiff(probe.dates[i], probe.request_date)
                  IN  /\ d = 0 => probe.out[i] = Scale
                      /\ d = 1 => 10 * probe.out[i] = 8 * Scale - ((8 * Scale) % 10)
                      /\ d = 2 => 10 * probe.out[i] = 4 * Scale - ((4 * Scale) % 10)
                      /\ d >= 3 => probe.out[i] = 0

C5_Witness ==
    /\ probe.fn = "temporal"
    /\ Len(probe.dates) = 2
    /\ probe.request_date \notin {NaN, None}
    /\ probe.dates[1] # NaN /\ probe.dates[1] < probe.request_date
    /\ DayDiff(probe.dates[1], probe.request_date) = 2
    /\ probe.out[1] = Score04
    /\ probe.dates[2] # NaN /\ DayDiff(probe.dates[2], probe.request_date) >= 3
    /\ probe.out[2] = 0

\* C6: extract_affinity_score resolves by first match: 1.0 if the request's
\* label is in the transporter's allowed set; else 0.8 if the transporter
\* carries a label of the request's category; else 0.4 if the request's
\* category and one of the transporter's both belong to {Grains, Tubers};
\* else 0.0.  Tomatoes against Rice|Maize scores 0.0, and no value other
\* than 1.0, 0.8, 0.4, 0.0 is produced.
AllowedLabels(cell) == IF cell = NA THEN {} ELSE SeqRange(Split(cell))
PivotPair == {"Grains", "Tubers"}

C6_AffinityPrecedence ==
    probe.fn = "affinity" =>
        LET labels == AllowedLabels(probe.allowed)
            cat == get_category(probe.request_crop)
            cats == {get_category(l) : l \in labels}
            score == probe.out[1]
        IN  /\ Len(probe.out) = 1
            /\ score \in {Score10, Score08, Score04, Score00}
            /\ score = Score10 <=> probe.request_crop \in labels
            /\ score = Score08 <=> (probe.request_crop \notin labels /\ cat \in cats)
            /\ score = Score04 <=> ( /\ probe.request_crop \notin labels
                                     /\ cat \notin cats
                                     /\ cat \in PivotPair
                                     /\ cats \cap PivotPair # {} )
            /\ (probe.request_crop = Tomatoes /\ probe.allowed = <<"Rice", "|", "Maize">>)
                  => score = Score00

C6_Witness ==
    /\ probe.fn = "affinity"
    /\ probe.request_crop = Yam
    /\ probe.allowed = <<"Tomatoes", "|", "Maize">>
    /\ probe.out = <<Score04>>

\* C7 (as claimed): a request whose cargo label is outside the taxonomy
\* receives affinity 0.0 against every transporter, whatever labels the
\* transporter's allowed list contains.
C7_UnknownScoresZero ==
    (probe.fn = "affinity" /\ get_category(probe.request_crop) = "Unknown")
        => probe.out = <<Score00>>

\* C9 (as claimed): when an optional transporter field is missing (the whole
\* column absent, or a single value null) compute_scores completes without
\* raising: the corridor deviation falls back to the direct distance from the
\* current position, a transporter with no allowed labels scores affinity
\* 0.0, and the temporal and capacity scores stay in their value sets.
RequiredPresent ==
    /\ drivers # <<>>
    /\ "current_lat" \notin absent
    /\ \A i \in 1..Len(drivers) : IsNum(drivers[i].current_lat) /\ IsNum(drivers[i].current_lon)
    /\ \A c \in {"pickup_lat", "pickup_lon", "dropoff_lat", "dropoff_lon",
                 "required_capacity"} : IsNum(LastRequest[c])

\* the table with every missing home base replaced by the current position
HomeAtCurrent(df) ==
    [i \in 1..Len(df) |->
        IF IsNum(df[i].home_base_lat) /\ IsNum(df[i].home_base_lon) THEN df[i]
        ELSE [df[i] EXCEPT !.home_base_lat = df[i].current_lat,
                           !.home_base_lon = df[i].current_lon]]

C9_OptionalFieldsFallBack ==
    (requests # <<>> /\ RequiredPresent) =>
        /\ err = "none"
        /\ pc = "run"
        /\ Len(features) = Len(drivers)
        /\ LET fallback == compute_scores(HomeAtCurrent(drivers),
                                          {"available_capacity"} \cap absent, LastRequest)
           IN  \A i \in 1..Len(features) :
                  /\ features[i].corridor_score = fallback[i].corridor_score
                  /\ drivers[i].allowed_crops = NA => features[i].affinity_score = 0
                  /\ features[i].time_score \in {Score10, Score08, Score04, Score00}
                  /\ features[i].capacity_score \in {0, Scale}

\* C10 (as claimed): a request or transporter whose required coordinates or
\* capacity are missing or non-numeric makes the matching call fail with an
\* error; no result is computed from a substituted value.
RequiredMissing ==
    \/ \E c \in {"pickup_lat", "pickup_lon", "dropoff_lat", "dropoff_lon",
                 "required_capacity"} : ~IsNum(LastRequest[c])
    \/ "current_lat" \in absent
    \/ \E i \in 1..Len(drivers) :
          ~IsNum(drivers[i].current_lat) \/ ~IsNum(drivers[i].current_lon)

C10_MissingRequiredFails ==
    (requests # <<>> /\ RequiredMissing) => (pc = "raised" /\ err # "none")

\* the features table the request at position rid gets when it is the only
\* row of requests_df
AloneFeatures(rid) == WithFinalScore(compute_scores(drivers, absent, requests[rid]))

C12_TablesUnchanged ==
    [][pc = "run" =>
          /\ drivers' = drivers
          /\ absent' = absent
          /\ SubSeq(requests', 1, Len(requests)) = requests]_vars

\* a call that ranked the second row of the table first and still holds the
\* table in its loaded order
C12_Witness ==
    /\ Scored
    /\ Len(drivers) = 2
    /\ matches # <<>>
    /\ matches[1].driver_id = 2
    /\ drivers[1].driver_id = 1
    /\ drivers[2].driver_id = 2

\* the table holds one transporter, with the capacity the last request needs,
\* available on the requested day and listing the requested label
SingleExactTransporter ==
    /\ requests # <<>>
    /\ Len(drivers) = 1
    /\ RequiredPresent
    /\ IsNum(drivers[1].available_capacity)
    /\ drivers[1].available_capacity >= LastRequest.required_capacity
    /\ IsNum(drivers[1].available_date)
    /\ drivers[1].available_date = LastRequest.requested_date
    /\ LastRequest.crop_type \in AllowedLabels(drivers[1].allowed_crops)

\* C13 (as claimed): for a table holding a single transporter with sufficient
\* capacity, same-day availability and the exact requested label, the call
\* returns exactly one match whose capacity, temporal, affinity, deadhead and
\* corridor scores are all 1.0 and whose composite score is 1.0.
C13_SingleTransporterPerfect ==
    SingleExactTransporter =>
        /\ pc = "run"
        /\ Len(matches) = 1
        /\ matches[1].driver_id = 1
        /\ matches[1].capacity_score = Scale
        /\ matches[1].time_score = Scale
        /\ matches[1].affinity_score = Scale
        /\ matches[1].deadhead_score = Scale
        /\ matches[1].corridor_score = Scale
        /\ matches[1].final_score = 100 * Scale

\* the same table with a numeric home base
C13_NumericHome ==
    (SingleExactTransporter /\ ValidInputs) => C13_SingleTransporterPerfect

\* the rows of the features table emitted for the last request
EmittedRows == {m.driver_id : m \in SeqRange(MatchesFor(LastRequest.request_id))}

\* C14 (as claimed): transporters with equal composite scores are ranked in
\* their order in the input table: tied matches are emitted in table order,
\* and of two tied rows the later one is inside the top K only if the earlier
\* one is.
C14_TiesInTableOrder ==
    Scored =>
        LET ms == MatchesFor(LastRequest.request_id)
        IN  /\ \A a, b \in 1..Len(ms) :
                  (a < b /\ ms[a].final_score = ms[b].final_score)
                      => ms[a].driver_id < ms[b].driver_id
            /\ \A i, j \in 1..Len(features) :
                  ( /\ i < j
                    /\ features[i].final_score = features[j].final_score
                    /\ features[j].driver_id \in EmittedRows )
                      => features[i].driver_id \in EmittedRows

\* the probed raw vector holds numbers only
NumericVector == probe.fn = "normalize" /\ NaN \notin SeqRange(probe.arr)

\* C15: when all raw values of a request are identical (a single-transporter
\* table included), inv_normalize returns 1.0 for every transporter; the
\* division by the zero range is never carried out.
C15_ZeroRangeAllOnes ==
    (NumericVector /\ \A i \in 1..Len(probe.arr) : probe.arr[i] = probe.arr[1]) =>
        /\ Len(probe.out) = Len(probe.arr)
        /\ \A i \in 1..Len(probe.out) : probe.out[i] = Scale

\* several transporters at the same non-zero raw distance, all scored 1.0
C15_Witness ==
    /\ NumericVector
    /\ Len(probe.arr) > 1
    /\ probe.arr[1] > 0
    /\ \A i \in 1..Len(probe.arr) : probe.arr[i] = probe.arr[1]
    /\ \A i \in 1..Len(probe.out) : probe.out[i] = Scale

CrossOf(A, B, P) == Abs((B[2] - A[2]) * (P[1] - A[1]) - (B[1] - A[1]) * (P[2] - A[2]))
NormSqOf(A, B) == (B[1] - A[1]) * (B[1] - A[1]) + (B[2] - A[2]) * (B[2] - A[2])

\* dev is |cross(AB, AP)| / |AB| for A # B, and the distance A -> P for A = B
IsDeviation(dev, A, B, P) ==
    /\ dev # NaN
    /\ dev >= 0
    /\ A # B => /\ dev * FSqrt(NormSqOf(A, B)) <= CrossOf(A, B, P) * Scale * Scale
                /\ (dev + 1) * FSqrt(NormSqOf(A, B)) > CrossOf(A, B, P) * Scale * Scale
    /\ A = B => dev = FSqrt(NormSqOf(A, P))

\* C17: compute_cross_track_deviation returns |cross(AB, AP)| / |AB| when
\* A # B and the direct distance from A to P when A = B, never an undefined
\* value; the corridor value used for ranking is the sum of the deviation of
\* the pickup and the deviation of the dropoff.
C17_CrossTrackDefined ==
    probe.fn = "corridor" =>
        /\ IsDeviation(probe.pickup_dev, probe.A, probe.B, probe.P)
        /\ IsDeviation(probe.dropoff_dev, probe.A, probe.B, probe.D)
        /\ probe.total_dev = probe.pickup_dev + probe.dropoff_dev

\* a transporter standing at its home base (A = B), with a pickup and a dropoff
\* elsewhere, both at a positive distance
C17_Witness ==
    /\ probe.fn = "corridor"
    /\ probe.A = probe.B
    /\ probe.pickup_dev > 0
    /\ probe.dropoff_dev > 0
    /\ probe.pickup_dev # probe.dropoff_dev
    /\ probe.total_dev = probe.pickup_dev + probe.dropoff_dev

\* the rows of the features table with a positive composite score
PositiveRows == {i \in 1..Len(features) : Viable(features, i)}

\* C18: truncating to the top K before filtering on score > 0 loses nothing:
\* the number of matches emitted for a request is min(K, number of transporters
\* with a positive composite score), and no transporter left out has a
\* composite score strictly greater than an emitted one.
C18_TruncationLosesNothing ==
    Scored =>
        LET ms == MatchesFor(LastRequest.request_id)
            positives == Cardinality(PositiveRows)
        IN  /\ Len(ms) = IF top_k < positives THEN top_k ELSE positives
            /\ \A i \in 1..Len(features), a \in 1..Len(ms) :
                  features[i].driver_id \notin EmittedRows
                      => ~(features[i].final_score # NaN
                           /\ features[i].final_score > ms[a].final_score)

\* a table whose first row scores zero and whose second row scores above it,
\* cut to one match
C18_Witness ==
    /\ Scored
    /\ top_k = 1
    /\ Len(features) = 2
    /\ features[1].final_score = 0
    /\ features[2].final_score > 0
    /\ Len(matches) = 1
    /\ matches[1].driver_id = 2

==========================================================================
